---- MODULE Spec2Model ----
(***************************************************************************)
(* promgather (must-gather/promgather/main.go): a one-shot collector that  *)
(* resolves a token and a host with the oc tool, fetches the catalog of    *)
(* storage metric names, wipes and recreates ./prom-metrics, and fetches   *)
(* one range query per metric in its own goroutine, joined by a WaitGroup. *)
(*                                                                         *)
(* Strings the program inspects or builds (tool output, host, metric       *)
(* names, file paths) are sequences of one-character strings.  Only        *)
(* the working directory and the log file outlive a run; everything else   *)
(* is rebuilt by each run of main.  The collector may be run any number of *)
(* times in the same working directory.                                    *)
(***************************************************************************)
EXTENDS Integers, Sequences, FiniteSets, TLC

\* ------------------------------------------------------------------ bounds
\* Longest catalog the backend answers with.
MaxCatalog == 2
\* Seconds the wall clock may advance during the whole behaviour.
MaxTicks == 1
\* Longest standard output of the oc tool in SpecCmd.
MaxOut == 3

\* --------------------------------------------------------------- constants
\* time.Hour in seconds.
Hour == 3600
\* The only status getMetricList and getMetric accept.
StatusOK == 200

NL == "\n"
\* Characters of the oc tool's standard output.
OutChars == {"a", " ", NL}

metricsFolder == <<".", "/", "p", "r", "o", "m", "-", "m", "e", "t", "r", "i", "c", "s">>
JsonExt == <<".", "j", "s", "o", "n">>
Bearer == <<"B", "e", "a", "r", "e", "r", " ">>

VARIABLES
    mainpc,         \* position of main
    now,            \* wall clock, Unix seconds
    out,            \* getCmdResult: the bytes.Buffer of the last command run
    token,          \* main: token
    host,           \* main: host (httpClient.host)
    headers,        \* main: headers (httpClient.headers)
    err,            \* main: err
    listReq,        \* getMetricList: the label-values request being built / sent
    listResp,       \* getMetricList: the response received (status, body)
    storageMetrics, \* main: storageMetrics
    metricIndex,    \* main: metricIndex of the launch loop
    wg,             \* sync.WaitGroup counter
    tasks,          \* the getMetric goroutines, by launch index
    dirs,           \* file system: directories (resolved path -> mode)
    files,          \* file system: regular files (resolved path -> data, mode,
                    \* and the task of this run that wrote it last, 0 when
                    \* an earlier run wrote it)
    log,            \* lines written through the log sink since it was set
    logMode,        \* file system: mode of promgather.log, NoMode while there is none
    stages,         \* stages of main completed in this run (history)
    before,         \* files the metrics folder held when this run began (history)
    cmds,           \* the oc commands this run has executed, in order (history)
    wire            \* the HTTP requests this run has sent (history)

vars == <<mainpc, now, out, token, host, headers, err, listReq, listResp,
          storageMetrics, metricIndex, wg, tasks, dirs, files, log, stages, before,
          cmds, wire, logMode>>

\* ------------------------------------------------------------ string helpers
RECURSIVE TrimLeft(_, _)
TrimLeft(s, c) ==
    IF s # <<>> /\ Head(s) = c THEN TrimLeft(Tail(s), c) ELSE s

RECURSIVE TrimRight(_, _)
TrimRight(s, c) ==
    IF s # <<>> /\ s[Len(s)] = c THEN TrimRight(SubSeq(s, 1, Len(s) - 1), c) ELSE s

\* strings.Trim(s, cutset) for a one-character cutset.
Trim(s, c) == TrimRight(TrimLeft(s, c), c)

\* url.Parse("https://" + host) succeeds: no control character in the URL and
\* no character the host part must escape.
ParseOK(h) == \A i \in 1..Len(h) : h[i] \notin {" ", NL}

\* All sequences over S of length at most n.
RECURSIVE SeqsUpTo(_, _)
SeqsUpTo(S, n) ==
    IF n = 0 THEN {<<>>}
    ELSE LET shorter == SeqsUpTo(S, n - 1)
         IN  shorter \cup {Append(s, x) : s \in shorter, x \in S}

\* -------------------------------------------------------------- file system
\* A path is split at "/" into components.
RECURSIVE SplitPath(_, _, _)
SplitPath(p, cur, acc) ==
    IF p = <<>> THEN Append(acc, cur)
    ELSE IF Head(p) = "/" THEN SplitPath(Tail(p), <<>>, Append(acc, cur))
    ELSE SplitPath(Tail(p), Append(cur, Head(p)), acc)

Components(p) == SplitPath(p, <<>>, <<>>)

NoEnt == <<<<"E", "N", "O", "E", "N", "T">>, <<>>>>

\* The kernel's walk of a relative path from the working directory (<<>>):
\* empty and "." components stay, ".." goes to the parent, every component
\* but the last must be an existing directory.
RECURSIVE Walk(_, _, _)
Walk(comps, cur, ds) ==
    IF comps = <<>> THEN cur
    ELSE LET c == Head(comps)
             next == IF c = <<>> \/ c = <<".">> THEN cur
                     ELSE IF c = <<".", ".">>
                          THEN (IF cur = <<>> THEN cur ELSE SubSeq(cur, 1, Len(cur) - 1))
                          ELSE Append(cur, c)
         IN  IF Len(comps) > 1 /\ next # <<>> /\ next \notin ds
             THEN NoEnt
             ELSE Walk(Tail(comps), next, ds)

Resolve(p, ds) == Walk(Components(p), <<>>, ds)

IsPrefix(p, q) == Len(p) <= Len(q) /\ SubSeq(q, 1, Len(p)) = p

FolderPath == Resolve(metricsFolder, {})

\* Mutant of MetricFile: the metric name is left out of the file name.
MetricFileShared(folder, metric) == folder \o <<"/">> \o JsonExt
\* main.go:184  metricsFolder+"/"+metric+".json"
MetricFile(folder, metric) == folder \o <<"/">> \o metric \o JsonExt

\* ------------------------------------------------------------------ inputs
\* Standard output of the oc tool in Spec: a value url.Parse accepts as a host
\* and one it rejects, each with its newline.
ToolOutputs == {<<"a", NL>>, <<" ", NL>>}
\* Standard output of the oc tool in SpecCmd.
AllOutputs == SeqsUpTo(OutChars, MaxOut)

\* main.go:136  the selector the request carries, (ceph|...|odf).+ : a name is
\* listed only when it starts with a storage prefix ("c" stands for each of
\* them) followed by at least one more character.
Selected(n) == Len(n) >= 2 /\ Head(n) = "c"
\* Metric names the backend may list: two plain names and one with a path
\* separator.  The backend honours the selector, and may list a name twice.
MetricNames == {n \in {<<"c", "a">>, <<"c", "b">>, <<"c", "/", "a">>,
                       <<".", "/", "c", "a">>, <<"c">>} : Selected(n)}
Catalogs == SeqsUpTo(MetricNames, MaxCatalog)
Malformed == <<<<"{">>>>

\* Response bodies of a range query.
Bodies == {<<"x">>, <<"y", "y">>}
Statuses == {StatusOK, 503}

ProperPrefixes(b) == {SubSeq(b, 1, n) : n \in 0..(Len(b) - 1)}

\* ------------------------------------------------------------------ values
NoHeaders == [k \in {} |-> <<>>]
NoReq == [path |-> "", query |-> <<>>, start |-> 0, end |-> 0, step |-> "", match |-> ""]
NoResp == [status |-> 0, body |-> <<>>]
Nil == "nil"

DirMode == <<7, 5, 0>>
\* Mutant of FileMode: the metric files are readable by everybody.
FileModeWorld == <<6, 4, 4>>
FileMode == <<6, 0, 0>>
\* main.go:38  the mode os.OpenFile creates promgather.log with.
LogMode == <<6, 0, 0>>
NoMode == <<>>

Line(who, msg) == [by |-> who, msg |-> msg]
Logged(who, msg) == \E k \in 1..Len(log) : log[k] = Line(who, msg)

FinishedMsg == "Finished: prometheus metrics gathering."

Init ==
    /\ mainpc = "open"
    /\ now = Hour
    /\ out = <<>>
    /\ token = <<>>
    /\ host = <<>>
    /\ headers = NoHeaders
    /\ err = Nil
    /\ listReq = NoReq
    /\ listResp = NoResp
    /\ storageMetrics = <<>>
    /\ metricIndex = 0
    /\ wg = 0
    /\ tasks = <<>>
    /\ dirs = [p \in {} |-> DirMode]
    /\ files = [p \in {} |-> [data |-> <<>>, mode |-> FileMode, writer |-> 0]]
    /\ log = <<>>
    /\ stages = {}
    /\ before = {}
    /\ cmds = <<>>
    /\ wire = {}
    /\ logMode = NoMode

\* The wall clock advances between any two steps.
Tick ==
    /\ now < Hour + MaxTicks
    /\ now' = now + 1
    /\ UNCHANGED <<before, cmds, wire, logMode,
                   mainpc, out, token, host, headers, err, listReq, listResp,
                   storageMetrics, metricIndex, wg, tasks, dirs, files, log, stages>>

\* -------------------------------------------------------------------- main
\* main.go:38-47  open promgather.log, creating it with LogMode when there is
\* none and truncating it, set the sink, banner.
OpenLogFile ==
    /\ mainpc = "open"
    /\ \E ok \in BOOLEAN :
         IF ok
         THEN /\ log' = <<Line(0, "Starting: prometheus metrics gathering.")>>
              /\ logMode' = IF logMode = NoMode THEN LogMode ELSE logMode
              /\ stages' = stages \cup {"open"}
              /\ mainpc' = "token"
         ELSE /\ mainpc' = "exit"
              /\ UNCHANGED <<log, logMode, stages>>
    /\ UNCHANGED <<before, cmds, wire,
                   now, out, token, host, headers, err, listReq, listResp,
                   storageMetrics, metricIndex, wg, tasks, dirs, files>>

\* main.go:50  oc whoami -t
TokenCmd == "oc whoami -t"
\* main.go:57  oc -n openshift-monitoring get route thanos-querier
HostCmd == "oc get route thanos-querier"

\* Mutant of CmdNext: main goes on after a command that failed.
CmdNextIgnored(ok, next) == next
\* main.go:51-54 and 58-61  if err != nil { log; return }
CmdNext(ok, next) == IF ok THEN next ELSE "exit"

\* Mutant of Get: the request is sent without the client's headers.
GetBare(hs, who, path) == [by |-> who, path |-> path, header |-> NoHeaders]
\* main.go:26-35  HttpClient.Get: the request that goes out, every header of
\* the client's map set on it; who sends it is kept for the record.
Get(hs, who, path) == [by |-> who, path |-> path, header |-> hs]

\* Mutant of getCmdResult: only the end of the output is trimmed.
getCmdResultRight(o) == TrimRight(o, NL)
\* main.go:109-118  the result getCmdResult returns for standard output o.
getCmdResult(o) == Trim(o, NL)

\* main.go:50-56  token, headers["Authorization"].
GetToken(outs) ==
    /\ mainpc = "token"
    /\ \E o \in outs, ok \in BOOLEAN :
         /\ out' = o
         /\ IF ok
            THEN /\ token' = getCmdResult(o)
                 /\ headers' = [k \in {"Authorization"} |-> Bearer \o getCmdResult(o)]
                 /\ err' = Nil
                 /\ stages' = stages \cup {"token"}
                 /\ mainpc' = CmdNext(ok, "host")
                 /\ UNCHANGED log
            ELSE /\ err' = "exec"
                 /\ log' = Append(log, Line(0, "Error fetching the auth token"))
                 /\ mainpc' = CmdNext(ok, "host")
                 /\ UNCHANGED <<token, headers, stages>>
    /\ cmds' = Append(cmds, TokenCmd)
    /\ UNCHANGED <<before, wire, logMode, now, host, listReq, listResp, storageMetrics, metricIndex,
                   wg, tasks, dirs, files>>

\* main.go:57-74  host, and the client built from headers and host.
GetHost(outs) ==
    /\ mainpc = "host"
    /\ \E o \in outs, ok \in BOOLEAN :
         /\ out' = o
         /\ IF ok
            THEN /\ host' = getCmdResult(o)
                 /\ err' = Nil
                 /\ stages' = stages \cup {"host"}
                 /\ mainpc' = CmdNext(ok, "list_start")
                 /\ UNCHANGED log
            ELSE /\ err' = "exec"
                 /\ log' = Append(log, Line(0, "Error fetching the api server host"))
                 /\ mainpc' = CmdNext(ok, "list_start")
                 /\ UNCHANGED <<host, stages>>
    /\ cmds' = Append(cmds, HostCmd)
    /\ UNCHANGED <<before, wire, logMode, now, token, headers, listReq, listResp, storageMetrics,
                   metricIndex, wg, tasks, dirs, files>>

\* ----------------------------------------------------------- getMetricList
ListPath == "api/v1/label/__name__/values"
ListMatch == "{__name__=~\"(ceph|Ceph|noobaa|NooBaa|ocs|odf).+\"}"

\* What the label-values endpoint may answer.
ListResponses == [status : Statuses, body : Catalogs \cup {Malformed}]

\* main.go:120-134 and 78-80  parse the host, set "start" from the clock.
ListStart ==
    /\ mainpc = "list_start"
    /\ IF ParseOK(host)
       THEN /\ listReq' = [NoReq EXCEPT !.path = ListPath, !.start = now - Hour]
            /\ mainpc' = "list_end"
            /\ UNCHANGED <<err, log>>
       ELSE /\ err' = "parse"
            /\ log' = log \o <<Line(0, "Error parsing the host base url"),
                               Line(0, "Error on fetching the metric list")>>
            /\ mainpc' = "exit"
            /\ UNCHANGED listReq
    /\ UNCHANGED <<before, cmds, wire, logMode,
                   now, out, token, host, headers, listResp, storageMetrics,
                   metricIndex, wg, tasks, dirs, files, stages>>

\* main.go:135-137  set "end" from the clock, encode the query.
ListEnd ==
    /\ mainpc = "list_end"
    /\ listReq' = [listReq EXCEPT !.end = now, !.match = ListMatch]
    /\ mainpc' = "list_get"
    /\ UNCHANGED <<before, cmds, wire, logMode,
                   now, out, token, host, headers, err, listResp, storageMetrics,
                   metricIndex, wg, tasks, dirs, files, log, stages>>

\* main.go:139-157  the error getMetricList returns: geterr is the error of
\* httpClient.Get, r the response when there is one.
getMetricListErr(geterr, r) ==
    IF geterr # Nil THEN geterr
    ELSE IF r.status # StatusOK THEN geterr
    ELSE IF r.body = Malformed THEN "decode"
    ELSE Nil

\* main.go:139-157  the list getMetricList returns.
getMetricListData(geterr, r) ==
    IF geterr = Nil /\ r.status = StatusOK /\ r.body # Malformed THEN r.body ELSE <<>>

\* Mutant of getMetricListLog: getMetricList returns without logging.
getMetricListSilent(geterr, r) == <<>>
\* main.go:139-157  the lines getMetricList logs.
getMetricListLog(geterr, r) ==
    IF geterr # Nil THEN <<Line(0, "Error fetching the metric list")>>
    ELSE IF r.status # StatusOK THEN <<Line(0, "Metric list fetch not OK")>>
    ELSE IF r.body = Malformed THEN <<Line(0, "Error parsing the metric list result")>>
    ELSE <<>>

\* Mutant of NoMetrics: an empty list is not told apart.
NoMetricsUnchecked(list) == FALSE
\* main.go:82  len(storageMetrics) == 0
NoMetrics(list) == Len(list) = 0

\* main.go:139-157 and 77-85  send the request, decode the answer, check it.
ListGet ==
    /\ mainpc = "list_get"
    /\ \E geterr \in {Nil, "transport"} :
       \E r \in (IF geterr = Nil THEN ListResponses ELSE {NoResp}) :
         /\ listResp' = r
         /\ err' = getMetricListErr(geterr, r)
         /\ storageMetrics' = getMetricListData(geterr, r)
         /\ LET lines == getMetricListLog(geterr, r)
                e == getMetricListErr(geterr, r)
                list == getMetricListData(geterr, r)
            IN  IF e # Nil
                THEN /\ log' = log \o lines \o <<Line(0, "Error on fetching the metric list")>>
                     /\ mainpc' = "exit"
                     /\ UNCHANGED stages
                ELSE IF NoMetrics(list)
                THEN /\ log' = log \o lines \o
                               <<Line(0, "Error: prometheus storage metrics not found.")>>
                     /\ mainpc' = "exit"
                     /\ UNCHANGED stages
                ELSE /\ log' = log \o lines
                     /\ mainpc' = "removeall"
                     /\ stages' = stages \cup {"list"}
    /\ wire' = wire \cup {Get(headers, 0, listReq.path)}
    /\ UNCHANGED <<before, cmds, logMode, now, out, token, host, headers, listReq, metricIndex, wg,
                   tasks, dirs, files>>

\* ------------------------------------------------------ the metrics folder
Under(p, ps) == {q \in ps : IsPrefix(p, q)}
Without(f, gone) == [q \in (DOMAIN f) \ gone |-> f[q]]

\* Mutant of Wiped: the previous folder is kept.
WipedNothing(f, p) == f
\* main.go:89  what a successful os.RemoveAll(p) leaves of f.
Wiped(f, p) == Without(f, Under(p, DOMAIN f))

\* Mutant of AtRemoveAll: the folder is removed before the credentials are
\* fetched.
AtRemoveAllEarly == mainpc \in {"token", "removeall"}
\* main.go:87-89  the folder is removed once a non-empty catalog is there.
AtRemoveAll == mainpc = "removeall"

\* main.go:88-92  os.RemoveAll(metricsFolder): on success the folder and all
\* below it are gone; on failure some of the files below it may be.
RemoveAll ==
    /\ AtRemoveAll
    /\ LET p == Resolve(metricsFolder, DOMAIN dirs)
       IN  \E ok \in BOOLEAN :
             IF ok
             THEN /\ dirs' = Wiped(dirs, p)
                  /\ files' = Wiped(files, p)
                  /\ stages' = stages \cup {"removeall"}
                  /\ mainpc' = "mkdir"
                  /\ UNCHANGED <<err, log>>
             ELSE /\ \E gone \in SUBSET Under(p, DOMAIN files) :
                        files' = Without(files, gone)
                  /\ err' = "remove"
                  /\ log' = Append(log, Line(0, "Error removing the previous metrics folder"))
                  /\ mainpc' = "exit"
                  /\ UNCHANGED <<dirs, stages>>
    /\ UNCHANGED <<before, cmds, wire, logMode,
                   now, out, token, host, headers, listReq, listResp,
                   storageMetrics, metricIndex, wg, tasks>>

\* main.go:93-96  os.Mkdir(metricsFolder, 0750).
Mkdir ==
    /\ mainpc = "mkdir"
    /\ LET p == Resolve(metricsFolder, DOMAIN dirs)
       IN  \E ok \in BOOLEAN :
             IF ok /\ p \notin DOMAIN dirs /\ p \notin DOMAIN files /\ p # NoEnt
             THEN /\ dirs' = [q \in DOMAIN dirs \cup {p} |->
                                 IF q = p THEN DirMode ELSE dirs[q]]
                  /\ stages' = stages \cup {"mkdir"}
                  /\ mainpc' = "launch"
                  /\ UNCHANGED <<err, log>>
             ELSE /\ err' = "mkdir"
                  /\ log' = Append(log, Line(0, "Error creating the metrics folder"))
                  /\ mainpc' = "exit"
                  /\ UNCHANGED <<dirs, stages>>
    /\ UNCHANGED <<before, cmds, wire, logMode,
                   now, out, token, host, headers, listReq, listResp,
                   storageMetrics, metricIndex, wg, tasks, files>>

\* ---------------------------------------------------------------- fan-out
NewTask(metric) ==
    [metric |-> metric, pc |-> "start", req |-> NoReq, gets |-> 0, geterr |-> Nil,
     status |-> 0, body |-> <<>>, bodyData |-> <<>>, f |-> <<>>, result |-> "running"]

\* Mutant of WgAdd: the counter is not raised before the goroutine starts.
WgAddMissing(n) == n
\* main.go:101  wg.Add(1)
WgAdd(n) == n + 1
\* Mutant of WgDone: a task returns without lowering the counter.
WgDoneMissing(n) == n
\* main.go:161  defer wg.Done()
WgDone(n) == n - 1
\* main.go:104  wg.Wait() returns
WgWaitReturns(n) == n = 0

\* Mutant of AtLaunch: the goroutines are started before the folder is prepared.
AtLaunchEarly == mainpc \in {"removeall", "mkdir", "launch"}
\* main.go:98-100  the launch loop runs after the folder is prepared.
AtLaunch == mainpc = "launch"

\* Mutant of Entry: every goroutine is handed the first entry.
EntryFirst(list, k) == list[1]
\* main.go:102  storageMetrics[metricIndex], with metricIndex counted from 0.
Entry(list, k) == list[k + 1]

\* main.go:100-103  one iteration of the launch loop.
Launch ==
    /\ AtLaunch
    /\ metricIndex < Len(storageMetrics)
    /\ wg' = WgAdd(wg)
    /\ tasks' = Append(tasks, NewTask(Entry(storageMetrics, metricIndex)))
    /\ metricIndex' = metricIndex + 1
    /\ UNCHANGED <<before, cmds, wire, logMode,
                   mainpc, now, out, token, host, headers, err, listReq, listResp,
                   storageMetrics, dirs, files, log, stages>>

\* main.go:100  the loop condition fails: on to wg.Wait().
LaunchDone ==
    /\ AtLaunch
    /\ metricIndex >= Len(storageMetrics)
    /\ mainpc' = "wait"
    /\ stages' = stages \cup {"launch"}
    /\ UNCHANGED <<before, cmds, wire, logMode,
                   now, out, token, host, headers, err, listReq, listResp,
                   storageMetrics, metricIndex, wg, tasks, dirs, files, log>>

\* main.go:104-107  wg.Wait() returns, the completion line, return.
Finish ==
    /\ mainpc = "wait"
    /\ WgWaitReturns(wg)
    /\ log' = Append(log, Line(0, FinishedMsg))
    /\ stages' = stages \cup {"wait"}
    /\ mainpc' = "exit"
    /\ UNCHANGED <<before, cmds, wire, logMode,
                   now, out, token, host, headers, err, listReq, listResp,
                   storageMetrics, metricIndex, wg, tasks, dirs, files>>

\* The collector is run again: a new process, the same working directory.
NewRun ==
    /\ mainpc = "exit"
    /\ mainpc' = "open"
    /\ out' = <<>>
    /\ token' = <<>>
    /\ host' = <<>>
    /\ headers' = NoHeaders
    /\ err' = Nil
    /\ listReq' = NoReq
    /\ listResp' = NoResp
    /\ storageMetrics' = <<>>
    /\ metricIndex' = 0
    /\ wg' = 0
    /\ tasks' = <<>>
    /\ stages' = {}
    /\ before' = Under(FolderPath, DOMAIN files)
    /\ cmds' = <<>>
    /\ wire' = {}
    /\ files' = [p \in DOMAIN files |-> [files[p] EXCEPT !.writer = 0]]
    /\ UNCHANGED <<now, dirs, log, logMode>>

\* ---------------------------------------------------------------- getMetric
RangePath == "api/v1/query_range"
Step == "60s"

\* Goroutine i, its locals being t, logs msg and returns; the deferred
\* wg.Done() runs.
TaskFails(i, t, msg, result) ==
    /\ tasks' = [tasks EXCEPT ![i] = [t EXCEPT !.pc = "done", !.result = result,
                                               !.req = NoReq, !.bodyData = <<>>,
                                               !.f = <<>>]]
    /\ log' = Append(log, Line(i, msg))
    /\ wg' = WgDone(wg)

\* main.go:163 and 190-203  parse the host, set "query" and "start".
UrlStart(i) ==
    /\ tasks[i].pc = "start"
    /\ IF ParseOK(host)
       THEN /\ tasks' = [tasks EXCEPT ![i] = [@ EXCEPT
                            !.pc = "end",
                            !.req = [NoReq EXCEPT !.path = RangePath,
                                                  !.query = tasks[i].metric,
                                                  !.start = now - Hour]]]
            /\ UNCHANGED <<log, wg>>
       ELSE TaskFails(i, tasks[i], "Error fetching the metric query", "urlErr")
    /\ UNCHANGED <<before, cmds, wire, logMode,
                   mainpc, now, out, token, host, headers, err, listReq, listResp,
                   storageMetrics, metricIndex, dirs, files, stages>>

\* main.go:204-208  set "end" and "step", encode the query.
UrlEnd(i) ==
    /\ tasks[i].pc = "end"
    /\ tasks' = [tasks EXCEPT ![i] = [@ EXCEPT !.pc = "get",
                                               !.req = [@ EXCEPT !.end = now, !.step = Step]]]
    /\ UNCHANGED <<before, cmds, wire, logMode,
                   mainpc, now, out, token, host, headers, err, listReq, listResp,
                   storageMetrics, metricIndex, wg, dirs, files, log, stages>>

\* What the range-query endpoint may answer.
RangeResponses == [status : Statuses, body : Bodies]

\* Mutant of StatusNotOK: the status of the response is not looked at.
StatusUnchecked(r) == FALSE
\* main.go:174  response.StatusCode != 200
StatusNotOK(r) == r.status # StatusOK

\* main.go:168-183  send the request, check the status, read the body.
Fetch(i) ==
    /\ tasks[i].pc = "get"
    /\ \E geterr \in {Nil, "transport"} :
       \E r \in (IF geterr = Nil THEN RangeResponses ELSE {NoResp}) :
       \E readerr \in {Nil, "read"} :
         LET t == [tasks[i] EXCEPT !.gets = @ + 1, !.geterr = geterr,
                                   !.status = r.status]
         IN  IF geterr # Nil
             THEN TaskFails(i, t, "Error fetching the metric", "getErr")
             ELSE IF StatusNotOK(r)
             THEN TaskFails(i, t, "Metric fetch not OK", "statusErr")
             ELSE IF readerr # Nil
             THEN TaskFails(i, t, "Error reading the metric query response", "readErr")
             ELSE /\ tasks' = [tasks EXCEPT ![i] = [t EXCEPT !.pc = "write",
                                                            !.req = NoReq,
                                                            !.body = r.body,
                                                            !.bodyData = r.body]]
                  /\ UNCHANGED <<log, wg>>
    /\ wire' = wire \cup {Get(headers, i, tasks[i].req.path)}
    /\ UNCHANGED <<before, cmds, logMode,
                   mainpc, now, out, token, host, headers, err, listReq, listResp,
                   storageMetrics, metricIndex, dirs, files, stages>>

\* The file system after task i has left data d at path p: a file os.WriteFile
\* creates gets mode 0600, one that exists keeps its mode.
Written(p, d, i) ==
    [q \in DOMAIN files \cup {p} |->
        IF q = p
        THEN [data |-> d,
              mode |-> IF p \in DOMAIN files THEN files[p].mode ELSE FileMode,
              writer |-> i]
        ELSE files[q]]

\* Mutant of Overlay: a newline is added to the bytes written.
OverlayNewline(old, d) == Append(d, NL) \o SubSeq(old, Len(d) + 2, Len(old))
\* main.go:184  f.Write(data) at offset 0 of a file holding old: the bytes of
\* data, then what old holds beyond them.
Overlay(old, d) == d \o SubSeq(old, Len(d) + 1, Len(old))

\* main.go:184-188  os.WriteFile, first half: open metricsFolder/<metric>.json
\* with O_WRONLY|O_CREATE|O_TRUNC; f is the file that was opened.
OpenFile(i) ==
    /\ tasks[i].pc = "write"
    /\ LET p == Resolve(MetricFile(metricsFolder, tasks[i].metric), DOMAIN dirs)
           canOpen == p # NoEnt /\ p # <<>> /\ p \notin DOMAIN dirs
       IN  \E ok \in BOOLEAN :
             IF ok /\ canOpen
             THEN /\ files' = Written(p, <<>>, i)
                  /\ tasks' = [tasks EXCEPT ![i] = [@ EXCEPT !.pc = "writing", !.f = p]]
                  /\ UNCHANGED <<log, wg>>
             ELSE /\ UNCHANGED files
                  /\ TaskFails(i, tasks[i], "Error writing the metric file", "writeErr")
    /\ UNCHANGED <<before, cmds, wire, logMode,
                   mainpc, now, out, token, host, headers, err, listReq, listResp,
                   storageMetrics, metricIndex, dirs, stages>>

\* main.go:184-188  os.WriteFile, second half: write bodyData to the open file
\* f and close it; a failing write leaves less than bodyData written.
WriteFile(i) ==
    /\ tasks[i].pc = "writing"
    /\ LET p == tasks[i].f
       IN  \E ok \in BOOLEAN :
             IF ok
             THEN /\ files' = Written(p, Overlay(files[p].data, tasks[i].bodyData), i)
                  /\ tasks' = [tasks EXCEPT ![i] = [@ EXCEPT !.pc = "done",
                                                             !.result = "written",
                                                             !.bodyData = <<>>,
                                                             !.f = <<>>]]
                  /\ wg' = WgDone(wg)
                  /\ UNCHANGED log
             ELSE /\ \E part \in ProperPrefixes(tasks[i].bodyData) :
                        files' = Written(p, Overlay(files[p].data, part), i)
                  /\ TaskFails(i, tasks[i], "Error writing the metric file", "writeErr")
    /\ UNCHANGED <<before, cmds, wire, logMode,
                   mainpc, now, out, token, host, headers, err, listReq, listResp,
                   storageMetrics, metricIndex, dirs, stages>>

Task(i) == UrlStart(i) \/ UrlEnd(i) \/ Fetch(i) \/ OpenFile(i) \/ WriteFile(i)

\* ------------------------------------------------------------ specifications
Next ==
    \/ Tick
    \/ OpenLogFile
    \/ GetToken(ToolOutputs)
    \/ GetHost(ToolOutputs)
    \/ ListStart
    \/ ListEnd
    \/ ListGet
    \/ RemoveAll
    \/ Mkdir
    \/ Launch
    \/ LaunchDone
    \/ Finish
    \/ NewRun
    \/ \E i \in 1..Len(tasks) : Task(i)

Spec == Init /\ [][Next]_vars

\* The two getCmdResult calls alone, over every standard output up to MaxOut.
NextCmd ==
    \/ OpenLogFile
    \/ GetToken(AllOutputs)
    \/ GetHost(AllOutputs)

SpecCmd == Init /\ [][NextCmd]_vars

\* The fan-out under fair scheduling: the main goroutine keeps running, and the
\* Go scheduler gives every started goroutine its turn; a request that gets no
\* answer ends with the client's timeout error (line 72), which Fetch covers.
MainFanOut == Launch \/ LaunchDone \/ Finish
FairSpec ==
    /\ Spec
    /\ WF_vars(MainFanOut)
    /\ \A i \in 1..MaxCatalog : WF_vars(i \in 1..Len(tasks) /\ Task(i))

\* ------------------------------------------------------------------ claims
TaskIds == 1..Len(tasks)
\* The completion line was logged by this run.
FinishedEmitted == "open" \in stages /\ Logged(0, FinishedMsg)
TaskLogged(i) == \E k \in 1..Len(log) : log[k].by = i
\* The file <metric>.json of the metrics folder, as the kernel resolves it.
FileOf(metric) == Resolve(MetricFile(metricsFolder, metric), DOMAIN dirs)
HasFile(metric) == FileOf(metric) \in DOMAIN files
FolderFiles == Under(FolderPath, DOMAIN files)
RunEnded == mainpc = "exit"

\* C1  Completion gate: once this run has logged the completion line, every
\* catalog entry has a task, every task has ended, and each ended task either
\* wrote its file or logged a failure line.
C1_CompletionGate ==
    FinishedEmitted =>
        /\ Len(tasks) = Len(storageMetrics)
        /\ \A i \in TaskIds :
             /\ tasks[i].pc = "done"
             /\ tasks[i].result = "written" \/ TaskLogged(i)
             /\ tasks[i].result = "written" => ~TaskLogged(i)

C1_Witness ==
    /\ FinishedEmitted
    /\ Len(tasks) = 2
    /\ tasks[1].result = "written"
    /\ tasks[2].result = "statusErr"

\* Task i received its answer and the fetch failed: a transport error or a
\* status other than 200.
FetchFailed(i) == tasks[i].geterr # Nil \/ tasks[i].status \notin {0, StatusOK}
FetchAndWriteOK(i) ==
    tasks[i].geterr = Nil /\ tasks[i].status = StatusOK /\ tasks[i].result = "written"

\* C2  Fan-out isolation: when a run that reached the fan-out has ended, it has
\* logged the completion line, and for metrics A # B of the catalog such that
\* every fetch of A failed and a fetch and write of B succeeded, the folder
\* holds B.json and no A.json.
C2_FanOutIsolation ==
    (RunEnded /\ "launch" \in stages) =>
        /\ FinishedEmitted
        /\ \A i, j \in TaskIds :
             ( /\ tasks[i].metric # tasks[j].metric
               /\ \A k \in TaskIds : tasks[k].metric = tasks[i].metric => FetchFailed(k)
               /\ FetchAndWriteOK(j) )
             => (HasFile(tasks[j].metric) /\ ~HasFile(tasks[i].metric))

C2_Witness ==
    /\ RunEnded
    /\ Len(tasks) = 2
    /\ \E i, j \in TaskIds :
         /\ tasks[i].metric = <<"c", "a">> /\ tasks[i].status = 503
         /\ tasks[j].metric = <<"c", "b">> /\ FetchAndWriteOK(j)
         /\ HasFile(tasks[j].metric) /\ ~HasFile(tasks[i].metric)

\* Every file of the metrics folder was written by the current run, and every
\* file the current run wrote is there.
OnlyThisRun ==
    /\ \A p \in FolderFiles : files[p].writer # 0
    /\ \A i \in TaskIds : tasks[i].result = "written" => HasFile(tasks[i].metric)

\* C3 as stated: after any run has ended, whatever runs came before it, the
\* folder holds exactly the files that run wrote.
C3_Original == RunEnded => OnlyThisRun

\* C3  Idempotent directory reset, amended: from the moment the RemoveAll of a
\* run has succeeded, whatever runs came before it, the folder holds exactly
\* the files that run wrote.
C3_DirectoryReset == "removeall" \in stages => OnlyThisRun

C3_Witness ==
    /\ RunEnded /\ FinishedEmitted
    /\ Len(tasks) = 2
    /\ tasks[1].metric = <<"c", "a">> /\ tasks[1].result = "written"
    /\ tasks[2].result = "getErr"
    /\ before = {FileOf(<<"c", "a">>), FileOf(<<"c", "b">>)}
    /\ FolderFiles = {FileOf(<<"c", "a">>)}

\* getMetricList has received a response that is not a well-formed 200.
BadListResponse ==
    \/ listResp.status \notin {0, StatusOK}
    \/ listResp.status = StatusOK /\ listResp.body = Malformed

\* C4  Catalog failure: a response whose status is not 200, or whose body is
\* malformed, yields a non-nil error and no list, and the run aborts; a
\* well-formed 200 yields the data array.
C4_CatalogError ==
    /\ BadListResponse => (err # Nil /\ storageMetrics = <<>> /\ RunEnded)
    /\ (listResp.status = StatusOK /\ listResp.body # Malformed)
          => storageMetrics = listResp.body

\* C5  Empty catalog aborts: after a well-formed 200 with an empty data array
\* the run has ended without removing or creating the folder, without
\* launching a task and without the completion line.
C5_EmptyCatalogAborts ==
    (listResp.status = StatusOK /\ listResp.body = <<>>) =>
        /\ RunEnded
        /\ stages \cap {"list", "removeall", "mkdir", "launch", "wait"} = {}
        /\ tasks = <<>>
        /\ wg = 0
        /\ ~FinishedEmitted

C5_Witness ==
    /\ listResp.status = StatusOK /\ listResp.body = <<>>
    /\ before # {}
    /\ FolderFiles = before

\* C6  One-hour window: every request URL that has been built, for the catalog
\* and for each range query, has end - start = 3600.
C6_OneHourWindow ==
    /\ mainpc = "list_get" => listReq.end - listReq.start = Hour
    /\ \A i \in TaskIds :
         tasks[i].pc = "get" => tasks[i].req.end - tasks[i].req.start = Hour

\* s without one trailing c, when it ends with c.
TrimSuffix(s, c) ==
    IF s # <<>> /\ s[Len(s)] = c THEN SubSeq(s, 1, Len(s) - 1) ELSE s

\* r is o without its leading and trailing newlines, all of them, and with
\* everything between them kept.
IsNewlineTrim(r, o) ==
    /\ r # <<>> => (r[1] # NL /\ r[Len(r)] # NL)
    /\ \E i, j \in 0..Len(o) :
         /\ i + Len(r) + j = Len(o)
         /\ \A k \in 1..i : o[k] = NL
         /\ \A k \in 1..j : o[Len(o) + 1 - k] = NL
         /\ SubSeq(o, i + 1, i + Len(r)) = r

\* C7 as stated: the result is the output without one trailing newline.
C7_Original ==
    /\ mainpc = "host" => token = TrimSuffix(out, NL)
    /\ mainpc = "list_start" => host = TrimSuffix(out, NL)

\* C7  Token/host trimming, amended: getCmdResult returns the output without
\* any of its leading and trailing newlines; inner newlines and all other
\* whitespace are kept.
C7_NewlineTrim ==
    /\ mainpc = "host" => IsNewlineTrim(token, out)
    /\ mainpc = "list_start" => IsNewlineTrim(host, out)

C7_Witness ==
    /\ mainpc = "host"
    /\ out = <<NL, " ", NL>>
    /\ token = <<" ">>

\* C8  Launch ordering: while any task has been launched, the catalog has been
\* received and decoded into storageMetrics, and the folder has been removed
\* and created again by this run, holding nothing an earlier run wrote.
C8_LaunchOrdering ==
    (tasks # <<>> \/ wg # 0) =>
        /\ {"list", "removeall", "mkdir"} \subseteq stages
        /\ listResp.status = StatusOK
        /\ listResp.body # Malformed
        /\ storageMetrics = listResp.body
        /\ FolderPath \in DOMAIN dirs
        /\ \A p \in FolderFiles : files[p].writer # 0

C8_Witness ==
    /\ before # {}
    /\ Len(tasks) = 1
    /\ Len(storageMetrics) = 2
    /\ tasks[1].pc = "get"

\* The path string task i hands to os.WriteFile.
PathOf(i) == MetricFile(metricsFolder, tasks[i].metric)

C10_FailureLeavesNoFile ==
    \A i \in TaskIds :
        (tasks[i].pc = "done" /\ tasks[i].result # "written")
            => \A p \in DOMAIN files : files[p].writer # i

\* Task i is the only task of its metric.
ListedOnce(i) == \A j \in TaskIds : j # i => tasks[j].metric # tasks[i].metric
\* The file of task i's metric holds the body task i received.
HoldsOwnBody(i) ==
    /\ HasFile(tasks[i].metric)
    /\ files[FileOf(tasks[i].metric)].data = tasks[i].body

C12_Termination ==
    /\ ("mkdir" \in stages) ~> (RunEnded /\ FinishedEmitted)
    /\ \A i \in 1..MaxCatalog :
         (Len(tasks) >= i) ~> (Len(tasks) >= i /\ tasks[i].pc = "done")

C12_Witness ==
    /\ RunEnded /\ FinishedEmitted
    /\ Len(tasks) = MaxCatalog
    /\ tasks[1].result = "getErr"
    /\ tasks[2].result = "written"

\* A command of this run has failed.
CmdFailed == err = "exec"

\* C13  Credential/endpoint failure aborts before HTTP: the token command runs
\* before the host command, each at most once, and both exactly once before
\* anything else; when either has failed the run has ended with no HTTP
\* request sent, no task launched and the folder as the run found it, and a
\* failed token command is the only command that ran.
C13_AbortBeforeHTTP ==
    /\ cmds \in {<<>>, <<TokenCmd>>, <<TokenCmd, HostCmd>>}
    /\ (wire # {} \/ tasks # <<>> \/ stages \cap {"host", "list", "removeall", "mkdir"} # {})
          => (cmds = <<TokenCmd, HostCmd>> /\ ~CmdFailed)
    /\ CmdFailed =>
          /\ RunEnded
          /\ wire = {}
          /\ tasks = <<>> /\ wg = 0
          /\ stages \subseteq {"open", "token"}
          /\ FolderFiles = before
          /\ ~FinishedEmitted
          /\ "token" \notin stages => cmds = <<TokenCmd>>

C13_Witness ==
    /\ CmdFailed
    /\ cmds = <<TokenCmd>>
    /\ before # {}
    /\ FolderFiles = before

\* The range-query requests task i has sent.
SentBy(i) == {w \in wire : w.by = i}

\* C14  One request per metric, no retry: the k-th task launched is the task
\* of the k-th catalog entry, so N entries get N tasks once the loop is done,
\* and no task sends more than one request, whatever the request's outcome.
C14_OneRequestPerMetric ==
    /\ Len(tasks) = metricIndex
    /\ Len(tasks) <= Len(storageMetrics)
    /\ \A i \in TaskIds : tasks[i].metric = storageMetrics[i]
    /\ "launch" \in stages => Len(tasks) = Len(storageMetrics)
    /\ \A w \in wire : w.by \in {0} \cup TaskIds
    /\ \A i \in TaskIds :
         /\ tasks[i].gets = Cardinality(SentBy(i))
         /\ tasks[i].gets <= 1
         /\ \A w \in SentBy(i) : w.path = RangePath
         /\ tasks[i].pc \in {"start", "end", "get"} => tasks[i].gets = 0
         /\ tasks[i].result \in {"getErr", "statusErr", "readErr", "written", "writeErr"}
               => tasks[i].gets = 1

C14_Witness ==
    /\ FinishedEmitted
    /\ Len(storageMetrics) = MaxCatalog
    /\ Len(tasks) = MaxCatalog
    /\ tasks[1].result = "getErr" /\ tasks[1].gets = 1
    /\ tasks[2].result = "statusErr" /\ tasks[2].gets = 1
\* The header map main configures from the token (lines 55-56).
Configured == [k \in {"Authorization"} |-> Bearer \o token]

\* Every request sent so far carries exactly the configured header, and the
\* shared configuration is the one main built.
HeadersInjected ==
    /\ \A w \in wire : w.header = Configured
    /\ (wire # {} \/ tasks # <<>>) => (headers = Configured /\ host = getCmdResult(out))

\* C15  Header injection with read-only shared configuration: every GET sent,
\* for the catalog and for each range query, carries exactly the Authorization
\* header main configured, and no step taken while tasks exist changes the
\* header map, the token or the host.
C15_HeaderInjection ==
    /\ []HeadersInjected
    /\ [][tasks' # <<>> => UNCHANGED <<headers, token, host>>]_vars

C15_Witness ==
    /\ RunEnded
    /\ token = <<"a">>
    /\ Cardinality(wire) = 1 + MaxCatalog
    /\ \A w \in wire : w.header["Authorization"] = Bearer \o <<"a">>
\* The last line of the log is main's line msg.
LastLine(msg) == log # <<>> /\ log[Len(log)] = Line(0, msg)

\* The run has ended at a failed sequential step, with that step's line
\* logged, the stages named and nothing later done.
AbortedAt(msg, done) ==
    /\ RunEnded
    /\ Logged(0, msg)
    /\ log[Len(log)].by = 0
    /\ stages = {"open"} \cup done
    /\ tasks = <<>> /\ wg = 0
    /\ ~Logged(0, FinishedMsg)

\* C16  Sequential-stage failures are logged and final: a failed token or host
\* command, a failed catalog fetch, an empty catalog, a failed removal and a
\* failed creation of the folder each leave the line of that step in the log
\* and end the run with no later stage done, no task and no completion line.
C16_SequentialFailures ==
    /\ (err = "exec" /\ "token" \notin stages)
          => (AbortedAt("Error fetching the auth token", {})
              /\ LastLine("Error fetching the auth token"))
    /\ (err = "exec" /\ "token" \in stages)
          => (AbortedAt("Error fetching the api server host", {"token"})
              /\ LastLine("Error fetching the api server host"))
    /\ err = "parse"
          => (AbortedAt("Error parsing the host base url", {"token", "host"})
              /\ LastLine("Error on fetching the metric list"))
    /\ err = "transport"
          => (AbortedAt("Error fetching the metric list", {"token", "host"})
              /\ LastLine("Error on fetching the metric list"))
    /\ err = "decode"
          => (AbortedAt("Error parsing the metric list result", {"token", "host"})
              /\ LastLine("Error on fetching the metric list"))
    /\ listResp.status \notin {0, StatusOK}
          => AbortedAt("Metric list fetch not OK", {"token", "host"})
    /\ (listResp.status = StatusOK /\ listResp.body = <<>>)
          => (AbortedAt("Error: prometheus storage metrics not found.", {"token", "host"})
              /\ LastLine("Error: prometheus storage metrics not found."))
    /\ err = "remove"
          => (AbortedAt("Error removing the previous metrics folder",
                        {"token", "host", "list"})
              /\ LastLine("Error removing the previous metrics folder"))
    /\ err = "mkdir"
          => (AbortedAt("Error creating the metrics folder",
                        {"token", "host", "list", "removeall"})
              /\ LastLine("Error creating the metrics folder"))
    /\ (RunEnded /\ "open" \in stages /\ "wait" \notin stages)
          => (err # Nil \/ listResp.status \notin {0, StatusOK}
              \/ (listResp.status = StatusOK /\ listResp.body = <<>>))

C16_Witness ==
    /\ err = "mkdir"
    /\ RunEnded
    /\ before # {}
    /\ FolderFiles = {}
    /\ LastLine("Error creating the metrics folder")
\* A mode leaves group and others without any permission.
OwnerOnly(mode) == mode[2] = 0 /\ mode[3] = 0

\* What this run has put on disk: the folder, the metric files, the log file.
FolderMade == "mkdir" \in stages
WrittenFiles == {p \in DOMAIN files : files[p].writer # 0}

\* C17 as stated: the folder, every metric file and the log file are
\* accessible to their owner only.
C17_Original ==
    /\ FolderMade => OwnerOnly(dirs[FolderPath])
    /\ \A p \in WrittenFiles : OwnerOnly(files[p].mode)
    /\ "open" \in stages => OwnerOnly(logMode)

\* C17  Owner-only outputs, amended: the folder is created with mode 0750,
\* all for the owner, read and search for the group, nothing for others;
\* every metric file and the log file are created with mode 0600.
C17_OutputModes ==
    /\ FolderMade => dirs[FolderPath] = <<7, 5, 0>>
    /\ \A p \in WrittenFiles : files[p].mode = <<6, 0, 0>>
    /\ "open" \in stages => logMode = <<6, 0, 0>>

C17_Witness ==
    /\ RunEnded
    /\ FolderMade
    /\ Cardinality(WrittenFiles) = MaxCatalog
    /\ logMode = LogMode
    /\ ~OwnerOnly(dirs[FolderPath])
\* What the files of f hold and who may access them.
Content(f) == [p \in DOMAIN f |-> [data |-> f[p].data, mode |-> f[p].mode]]

\* The run has ended before it came to prepare the folder.
AbortedEarly == RunEnded /\ "list" \notin stages

\* C18  Early abort preserves the previous snapshot: no step of a run that has
\* not yet received a non-empty catalog changes a directory or the content or
\* mode of a file, and a run that ended before then (log file, token, host,
\* catalog failure or empty catalog) leaves in the folder the files it found,
\* none of them written by it.
C18_EarlyAbortPreserves ==
    /\ [](AbortedEarly =>
            /\ FolderFiles = before
            /\ \A p \in FolderFiles : files[p].writer = 0
            /\ stages \cap {"removeall", "mkdir", "launch", "wait"} = {})
    /\ [][("list" \notin stages') => (dirs' = dirs /\ Content(files') = Content(files))]_vars

C18_Witness ==
    /\ AbortedEarly
    /\ listResp.status = 503
    /\ Cardinality(before) = MaxCatalog
    /\ FolderFiles = before
    /\ \E p \in FolderFiles : files[p].data = <<"y", "y">>
====
